---- MODULE Spec2Model ----
(***************************************************************************)
(* Scoring methods (finder/methods.py) and the validation harness's        *)
(* negative sampling (experiment.py) of the candidate-location finder.     *)
(*                                                                         *)
(* Numbers.  Embeddings have one feature dimension; a feature is a small   *)
(* integer.  StandardScaler statistics are kept exactly: for n fitted rows *)
(* with sum S, mean_ = S/n and transform(x) = (x - mean_)/scale_ with      *)
(* scale_ > 0.  A standardized value is held as the integer numerator      *)
(* n*x - S, i.e. in units of 1/(n*scale_); every score is a ratio of two   *)
(* such values, so scale_ cancels and scores are exact rationals.          *)
(* A score is a pair <<num, den>> in lowest terms with den > 0; the pair   *)
(* <<0, 0>> is IEEE NaN (the result of 0/0).                               *)
(***************************************************************************)
EXTENDS Integers, Sequences, FiniteSets

VARIABLES
    kind,                  \* which PredictionMethod subclass the instance is
    metric,                \* SimilarityMethod.metric
    scaler,                \* SimilarityMethod._scaler
    centroid,              \* SimilarityMethod._centroid
    model,                 \* ClassifierMethod._model
    negative_ratio,        \* ClassifierMethod.negative_ratio
    min_negative_distance, \* ClassifierMethod.min_negative_distance
    seed,                  \* ClassifierMethod.seed
    positive_coords,       \* ClassifierMethod._positive_coords
    bbox,                  \* ClassifierMethod._bbox
    np_random,             \* numpy's process-global generator (np.random.*)
    pc,                    \* position inside _generate_negatives
    n_samples,             \* _generate_negatives: its argument
    tries,                 \* _generate_negatives: iterations of the for loop begun
    negatives,             \* _generate_negatives: the local list
    fit_positives,         \* history: argument of the last fit that returned
    last,                  \* history: the last call and how it ended
    mosaic,                \* experiment.py: mosaic.mosaic, pixel -> feature
    valid_coords,          \* run_species_experiment: valid_coords
    t_pc,                  \* position inside run_single_trial / sample_background_points
    n_pos,                 \* run_single_trial: its argument
    shuffled_coords,       \* run_single_trial: shuffled_coords
    train_neg_coords,      \* run_single_trial: train_neg_coords
    test_neg_coords,       \* run_single_trial: test_neg_coords
    trial_ok,              \* history: whether run_single_trial returned (or raised)
    n_points,              \* sample_background_points: its argument
    exclude_coords,        \* sample_background_points: its argument
    exclude_pixels,        \* sample_background_points: the local set
    coords,                \* sample_background_points: the local list
    embeddings,            \* sample_background_points: the local list
    attempts,              \* sample_background_points: the local counter
    sampled,               \* history: the pixels drawn for the entries of coords
    rng,                   \* run_single_trial: the generator passed as rng
    call,                  \* find_candidates: the arguments of the last call
    result,                \* find_candidates: the PredictionResult it returned
    candidates_file,       \* output_dir/candidates.geojson: its number of features
    reported,              \* run.py main: the candidate count it printed
    pos_scores,            \* compute_auc: its argument
    neg_scores,            \* compute_auc: its argument
    auc,                   \* compute_auc: what it returned
    s_pc,                  \* position inside run_species_experiment
    n_total,               \* run_species_experiment: n_total
    size_idx,              \* run_species_experiment: position in N_POSITIVE_VALUES
    trial_idx,             \* run_species_experiment: trial_idx
    trials,                \* run_species_experiment: trials
    experiments,           \* run_species_experiment: experiments
    shortfalls,            \* history: sampler calls of the run that returned short
    outputs                \* what a generator gives in each of its states

\* the state of the validation harness (experiment.py)
harness == <<mosaic, valid_coords, t_pc, n_pos, shuffled_coords, train_neg_coords, test_neg_coords,
             trial_ok, n_points, exclude_coords, exclude_pixels, coords, embeddings,
             attempts, sampled, rng>>

\* the state of a method instance and of the numpy global generator (finder/methods.py)
method == <<kind, metric, scaler, centroid, model, negative_ratio,
            min_negative_distance, seed, positive_coords, bbox, np_random,
            pc, n_samples, tries, negatives, fit_positives, last>>

\* the state of the candidate pipeline (finder/pipeline.py, run.py)
pipeline == <<call, result, candidates_file, reported>>

\* the arguments and the result of compute_auc (experiment.py)
scoring == <<pos_scores, neg_scores, auc>>

\* the state of run_species_experiment (experiment.py)
sweep == <<s_pc, n_total, size_idx, trial_idx, trials, experiments, shortfalls>>

vars == <<method, harness, pipeline, scoring, sweep, outputs>>

----------------------------------------------------------------------------
(* Bounds of the model *)

MaxVecs == 3        \* rows of a positive array given to fit (SimilaritySpec)
MaxRows == 1        \* rows of an array given to predict, besides the fitted positives
MaxCoords == 1      \* coordinates in a list given to set_spatial_context
Feat == {0, 2, 3}   \* feature values
RepFeat == {0, 2}   \* feature values of the representative arrays (Spec)
Lons == 0..1        \* longitudes of the coordinate lattice
Lats == 0..1        \* latitudes of the coordinate lattice
Ratios == {1, 2}    \* negative_ratio values given to the constructor
Dists == {0, 1}     \* min_negative_distance values given to the constructor

----------------------------------------------------------------------------
(* Arithmetic helpers *)

Abs(x) == IF x < 0 THEN -x ELSE x

Sign(x) == IF x > 0 THEN 1 ELSE IF x < 0 THEN -1 ELSE 0

Min2(a, b) == IF a < b THEN a ELSE b

Max2(a, b) == IF a > b THEN a ELSE b

RECURSIVE GCD(_, _)
GCD(a, b) == IF b = 0 THEN a ELSE GCD(b, a % b)

NaN == <<0, 0>>

\* num/den as a score value; x/0 with x = 0 is NaN (numpy: 0/0 -> nan)
Rat(num, den) ==
    IF den = 0 THEN NaN
    ELSE LET g == GCD(Abs(num), Abs(den))
             s == Sign(den)
         IN  <<(s * num) \div g, (s * den) \div g>>

InUnit(s) == s[2] > 0 /\ 0 <= s[1] /\ s[1] <= s[2]

\* a <= b for two non-NaN scores
ScoreLeq(a, b) == a[1] * b[2] <= b[1] * a[2]

RECURSIVE SumSeq(_)
SumSeq(s) == IF s = <<>> THEN 0 ELSE Head(s) + SumSeq(Tail(s))

RECURSIVE MaxSeq(_)
MaxSeq(s) == IF Len(s) = 1 THEN s[1] ELSE Max2(Head(s), MaxSeq(Tail(s)))

SeqsUpTo(S, n) == UNION {[1..k -> S] : k \in 0..n}

\* An (N, 1) array: its rows, and whether every entry is finite
Arr(rows) == [rows |-> rows, finite |-> TRUE]

\* an array with an inf entry (one row; the entry itself is never read)
NonFinite == [rows |-> <<0>>, finite |-> FALSE]

Arrays(F, n) == {Arr(r) : r \in SeqsUpTo(F, n)} \cup {NonFinite}

----------------------------------------------------------------------------
(* sklearn.preprocessing.StandardScaler as used by SimilarityMethod *)

NoScaler == [tag |-> "None", n |-> 0, sum |-> 0, sq |-> 0]

UnfittedScaler == [tag |-> "unfitted", n |-> 0, sum |-> 0, sq |-> 0]

\* fit: n, the column sum, and n^3 * var_ = sum of (n*x - S)^2;
\* scale_ = sqrt(var_), or 1 when var_ = 0
ScalerFit(rows) ==
    LET n == Len(rows)
        S == SumSeq(rows)
    IN  [tag |-> "fitted", n |-> n, sum |-> S,
         sq |-> SumSeq([i \in 1..n |-> (n * rows[i] - S) * (n * rows[i] - S)])]

\* transform(x) = (x - mean_)/scale_, in units of 1/(n*scale_)
Transform(sc, x) == sc.n * x - sc.sum

----------------------------------------------------------------------------
(* SimilarityMethod *)

NoCentroid == [tag |-> "None", v |-> 0]

NanCentroid == [tag |-> "nan", v |-> 0]

\* normalized.mean(axis=0), in units of 1/(n^2*scale_): the sum of the
\* standardized rows (the division by n is in the unit)
CentroidMean(sc, rows) == SumSeq([i \in 1..Len(rows) |-> Transform(sc, rows[i])])

\* The mean of mean-centred rows is 0 in exact arithmetic.  In binary64 a
\* single row gives exactly 0; for two or more rows the computed mean is 0
\* or a rounding residue of either sign.  resid is the sign of that residue;
\* only the cosine normalisation, which divides by its norm, is sensitive to it.
Residues(m, rows) == IF m = "cosine" /\ Len(rows) >= 2 THEN {-1, 0, 1} ELSE {0}

\* self._centroid / np.linalg.norm(self._centroid): a unit vector v (+1 or
\* -1 in one dimension), or 0/0 = nan when the computed mean is exactly 0
NormalizeCentroid(mean, resid) ==
    LET c == IF mean # 0 THEN Sign(mean) ELSE resid
    IN  IF c = 0 THEN NanCentroid ELSE [tag |-> "unit", v |-> c]

FitCentroid(m, sc, rows, resid) ==
    IF m = "cosine"
    THEN NormalizeCentroid(CentroidMean(sc, rows), resid)
    ELSE [tag |-> "vec", v |-> CentroidMean(sc, rows)]

\* a norm taken over the whole batch instead of per row (axis=1 dropped)
RowNormsOverBatch(zs) ==
    [i \in 1..Len(zs) |->
        IF MaxSeq([j \in 1..Len(zs) |-> Abs(zs[j])]) = 0 THEN 1
        ELSE MaxSeq([j \in 1..Len(zs) |-> Abs(zs[j])])]

\* norms = np.linalg.norm(batch_normalized, axis=1); norms[norms == 0] = 1
RowNorms(zs) == [i \in 1..Len(zs) |-> IF Abs(zs[i]) = 0 THEN 1 ELSE Abs(zs[i])]

\* one batch of the cosine branch: (row/norm . centroid + 1) / 2
CosineBatch(c, zs) ==
    LET norms == RowNorms(zs)
    IN  [i \in 1..Len(zs) |->
            IF c.tag = "nan" THEN NaN
            ELSE Rat(zs[i] * c.v + norms[i], 2 * norms[i])]

\* max_dist = distances.max() if distances.max() > 0 else 1
MaxDist(ds) == IF MaxSeq(ds) > 0 THEN MaxSeq(ds) ELSE 1

\* one batch of the euclidean branch: 1 - distance/max_dist, the distances
\* in units of 1/(n^2*scale_)
EuclideanBatch(sc, c, zs) ==
    LET ds == [i \in 1..Len(zs) |-> Abs(sc.n * zs[i] - c.v)]
        md == MaxDist(ds)
    IN  [i \in 1..Len(zs) |-> Rat(md - ds[i], md)]

SimilarityBatch(m, sc, c, batch) ==
    LET zs == [i \in 1..Len(batch) |-> Transform(sc, batch[i])]
    IN  IF m = "cosine" THEN CosineBatch(c, zs) ELSE EuclideanBatch(sc, c, zs)

\* for i in range(0, n_samples, batch_size): scores[i:end] = ...
RECURSIVE SimilarityScores(_, _, _, _, _)
SimilarityScores(m, sc, c, rows, bs) ==
    IF rows = <<>> THEN <<>>
    ELSE LET end == Min2(bs, Len(rows))
         IN  SimilarityBatch(m, sc, c, SubSeq(rows, 1, end))
                 \o SimilarityScores(m, sc, c, SubSeq(rows, end + 1, Len(rows)), bs)

----------------------------------------------------------------------------
(* ClassifierMethod: the Pipeline of StandardScaler and KNeighborsClassifier *)

N_NEIGHBORS == 10

NoModel == [tag |-> "None", X |-> <<>>, y |-> <<>>, k |-> 0]

\* Pipeline([...]) constructed, its fit not completed
UnfittedPipeline(k) == [tag |-> "unfitted", X |-> <<>>, y |-> <<>>, k |-> k]

\* k = max(1, min(self.n_neighbors, len(X) // 2))
KFor(nX) == Max2(1, Min2(N_NEIGHBORS, nX \div 2))

\* X = np.vstack([positive, negative]); y = [1]*len(positive) + [0]*len(negative)
TrainLabels(pos, neg) == [i \in 1..(Len(pos) + Len(neg)) |-> IF i <= Len(pos) THEN 1 ELSE 0]

FittedPipeline(pos, neg) ==
    [tag |-> "fitted", X |-> pos \o neg, y |-> TrainLabels(pos, neg),
     k |-> KFor(Len(pos) + Len(neg))]

\* Distance of a query to training row i after the pipeline's scaler, in
\* units of 1/scale_ (the same positive factor for every row)
KnnDist(m, x, i) == Abs(x - m.X[i])

\* kneighbors: the index sets of k nearest training rows; rows at equal
\* distance may be taken in any order
KNeighborSets(m, x) ==
    LET kk == Min2(m.k, Len(m.X))
    IN  {N \in SUBSET (1..Len(m.X)) :
            /\ Cardinality(N) = kk
            /\ \A i \in N : \A j \in (1..Len(m.X)) \ N : KnnDist(m, x, i) <= KnnDist(m, x, j)}

RECURSIVE ProdDist(_, _, _)
ProdDist(m, x, N) ==
    IF N = {} THEN 1
    ELSE LET i == CHOOSE j \in N : TRUE
         IN  KnnDist(m, x, i) * ProdDist(m, x, N \ {i})

RECURSIVE SumWeights(_, _, _, _)
\* sum over i in M of 1/dist_i, times the product of all distances in N
SumWeights(m, x, N, M) ==
    IF M = {} THEN 0
    ELSE LET i == CHOOSE j \in M : TRUE
         IN  ProdDist(m, x, N \ {i}) + SumWeights(m, x, N, M \ {i})

\* predict_proba(...)[:, 1] with weights="distance": the weight of a
\* neighbour is 1/dist; when a neighbour is at distance 0, the neighbours
\* at distance 0 weigh 1 and the others 0
Proba(m, x, N) ==
    LET zero == {i \in N : KnnDist(m, x, i) = 0}
        ones == {i \in N : m.y[i] = 1}
    IN  IF zero # {}
        THEN Rat(Cardinality(zero \cap ones), Cardinality(zero))
        ELSE Rat(SumWeights(m, x, N, ones), SumWeights(m, x, N, N))

ProbaSet(m, x) == {Proba(m, x, N) : N \in KNeighborSets(m, x)}

\* The arrays predict can return for rows: one probability per row.  The
\* batches are row ranges and predict_proba works row by row.
ClassifierScores(m, rows) ==
    {s \in [1..Len(rows) -> UNION {ProbaSet(m, rows[i]) : i \in 1..Len(rows)}] :
        \A i \in 1..Len(rows) : s[i] \in ProbaSet(m, rows[i])}

\* classes_ of the fitted KNeighborsClassifier has two entries
TwoClasses(m) == \E i \in 1..Len(m.y) : m.y[i] = 0

----------------------------------------------------------------------------
(* The instance and the calls on it *)

DEFAULT_BATCH == 15000

NoList == [tag |-> "None", v |-> <<>>]

Some(v) == [tag |-> "some", v |-> v]

Coords == Lons \X Lats

\* bounding boxes (min_lon, min_lat, max_lon, max_lat): the whole lattice,
\* its east edge, and the degenerate boxes of one point (the far corner,
\* the origin)
FullBox == <<0, 0, 1, 1>>

EastBox == <<1, 0, 1, 1>>

FarPointBox == <<1, 1, 1, 1>>

OriginBox == <<0, 0, 0, 0>>

SamplingBoxes == {FullBox, FarPointBox, OriginBox}

Origin == <<0, 0>>

CoordLists(n) == SeqsUpTo(Coords, n)

\* the record of a finished call: its name, whether it returned (ok) or
\* raised, its array argument and batch size, and what it returned
Call(op, ok, arr, bs, scores, cs) ==
    [op |-> op, ok |-> ok, arr |-> arr, bs |-> bs, scores |-> scores, coords |-> cs]

Returned(op) == Call(op, TRUE, <<>>, 0, <<>>, <<>>)

Raised(op) == Call(op, FALSE, <<>>, 0, <<>>, <<>>)

\* the raw values a generator gives
RawValues == 0..23

\* every raw value possible in the one state: the outputs of a generator
\* left open, so that a specification covers every sequence of draws
FreeOutputs == <<RawValues>>

\* the state a seed puts a generator in
SeedState(s) == (s % Len(outputs)) + 1

\* a draw moves a generator on to its next state
Advance(g) == [g EXCEPT !.state = (@ % Len(outputs)) + 1]

\* the global generator: whether np.random.seed has been called, with which
\* seed, whether a number has been drawn since, and its state
Unseeded == [seeded |-> FALSE, seed |-> 0, drawn |-> FALSE, state |-> 1]

\* the call leaving the global generator as it is
KeepGlobal(s) == np_random

\* np.random.seed(s)
SeedGlobal(s) == [seeded |-> TRUE, seed |-> s, drawn |-> FALSE, state |-> SeedState(s)]

\* np.random.uniform, np.random.choice: a draw from the global generator
DrawGlobal(g) == [Advance(g) EXCEPT !.drawn = TRUE]

\* np.random.uniform(min_lon, max_lon), np.random.uniform(min_lat, max_lat)
\* on the lattice: each coordinate at the low or the high edge of the box b
Uniform(b, r) ==
    <<b[1] + (r % 2) * (b[3] - b[1]), b[2] + ((r \div 2) % 2) * (b[4] - b[2])>>

\* the global generator in state g can give the point c in the box b
UniformDraws(g, b, c) == ~(\A r \in outputs[g.state] : Uniform(b, r) # c)

SamplerIdle ==
    /\ pc = "idle"
    /\ UNCHANGED <<pc, n_samples, tries, negatives>>

\* SimilarityMethod.__init__
NewSimilarity(m) ==
    /\ kind' = "similarity"
    /\ metric' = m
    /\ scaler' = NoScaler
    /\ centroid' = NoCentroid
    /\ model' = NoModel
    /\ negative_ratio' = 0
    /\ min_negative_distance' = 0
    /\ seed' = 0
    /\ positive_coords' = NoList
    /\ bbox' = NoList
    /\ fit_positives' = NoList
    /\ last' = Returned("init")

\* ClassifierMethod.__init__
NewClassifier(r, d, sd) ==
    /\ kind' = "classifier"
    /\ metric' = "none"
    /\ scaler' = NoScaler
    /\ centroid' = NoCentroid
    /\ model' = NoModel
    /\ negative_ratio' = r
    /\ min_negative_distance' = d
    /\ seed' = sd
    /\ positive_coords' = NoList
    /\ bbox' = NoList
    /\ fit_positives' = NoList
    /\ last' = Returned("init")

ConstructSimilarity(m) ==
    /\ SamplerIdle
    /\ NewSimilarity(m)
    /\ UNCHANGED np_random
    /\ UNCHANGED <<harness, pipeline, scoring, sweep, outputs>>

ConstructClassifier(r, d, sd) ==
    /\ SamplerIdle
    /\ NewClassifier(r, d, sd)
    /\ UNCHANGED np_random
    /\ UNCHANGED <<harness, pipeline, scoring, sweep, outputs>>

\* SimilarityMethod.fit(positive_embeddings); resid as in Residues
SimilarityFit(a, resid) ==
    /\ SamplerIdle
    /\ kind = "similarity"
    /\ IF Len(a.rows) = 0
       THEN \* raise ValueError("Need at least 1 positive sample")
            /\ last' = Call("fit", FALSE, a.rows, 0, <<>>, <<>>)
            /\ UNCHANGED <<scaler, centroid, fit_positives>>
       ELSE IF ~a.finite
       THEN \* self._scaler is assigned, then fit_transform raises ValueError
            /\ scaler' = UnfittedScaler
            /\ last' = Call("fit", FALSE, a.rows, 0, <<>>, <<>>)
            /\ UNCHANGED <<centroid, fit_positives>>
       ELSE /\ scaler' = ScalerFit(a.rows)
            /\ centroid' = FitCentroid(metric, ScalerFit(a.rows), a.rows, resid)
            /\ fit_positives' = Some(a.rows)
            /\ last' = Call("fit", TRUE, a.rows, 0, <<>>, <<>>)
    /\ UNCHANGED <<kind, metric, model, negative_ratio, min_negative_distance, seed,
                   positive_coords, bbox, np_random>>
    /\ UNCHANGED <<harness, pipeline, scoring, sweep, outputs>>

\* SimilarityMethod.predict(all_embeddings, batch_size)
SimilarityPredict(a, bs) ==
    /\ SamplerIdle
    /\ kind = "similarity"
    /\ IF centroid.tag = "None"
       THEN \* raise ValueError("Must call fit() first")
            last' = Call("predict", FALSE, a.rows, bs, <<>>, <<>>)
       ELSE IF Len(a.rows) = 0
       THEN \* the loop over batches has no iteration
            last' = Call("predict", TRUE, a.rows, bs, <<>>, <<>>)
       ELSE IF scaler.tag # "fitted" \/ ~a.finite
       THEN \* self._scaler.transform(batch) raises
            last' = Call("predict", FALSE, a.rows, bs, <<>>, <<>>)
       ELSE last' = Call("predict", TRUE, a.rows, bs,
                         SimilarityScores(metric, scaler, centroid, a.rows, bs), <<>>)
    /\ UNCHANGED <<kind, metric, scaler, centroid, model, negative_ratio,
                   min_negative_distance, seed, positive_coords, bbox, np_random,
                   fit_positives>>
    /\ UNCHANGED <<harness, pipeline, scoring, sweep, outputs>>

\* the guard with the bound off by one
TooFewPositivesOffByOne(rows) == Len(rows) < 1

\* if len(positive_embeddings) < 2
TooFewPositives(rows) == Len(rows) < 2

\* ClassifierMethod.fit(positive_embeddings, negative_embeddings); given is
\* FALSE when negative_embeddings is None
ClassifierFit(pos, neg, given) ==
    /\ SamplerIdle
    /\ kind = "classifier"
    /\ IF TooFewPositives(pos.rows)
       THEN \* raise ValueError("Classifier method needs at least 2 positive samples")
            /\ last' = Call("fit", FALSE, pos.rows, 0, <<>>, <<>>)
            /\ UNCHANGED <<model, fit_positives>>
       ELSE IF ~given
       THEN \* raise ValueError("Must provide negative_embeddings. ...")
            /\ last' = Call("fit", FALSE, pos.rows, 0, <<>>, <<>>)
            /\ UNCHANGED <<model, fit_positives>>
       ELSE IF ~(pos.finite /\ neg.finite)
       THEN \* self._model is assigned, then self._model.fit(X, y) raises
            /\ model' = UnfittedPipeline(KFor(Len(pos.rows) + Len(neg.rows)))
            /\ last' = Call("fit", FALSE, pos.rows, 0, <<>>, <<>>)
            /\ UNCHANGED fit_positives
       ELSE /\ model' = FittedPipeline(pos.rows, neg.rows)
            /\ fit_positives' = Some(pos.rows)
            /\ last' = Call("fit", TRUE, pos.rows, 0, <<>>, <<>>)
    /\ UNCHANGED <<kind, metric, scaler, centroid, negative_ratio,
                   min_negative_distance, seed, positive_coords, bbox, np_random>>
    /\ UNCHANGED <<harness, pipeline, scoring, sweep, outputs>>

\* ClassifierMethod.predict(all_embeddings, batch_size)
ClassifierPredict(a, bs) ==
    /\ SamplerIdle
    /\ kind = "classifier"
    /\ IF model.tag = "None"
       THEN \* raise ValueError("Must call fit() first")
            last' = Call("predict", FALSE, a.rows, bs, <<>>, <<>>)
       ELSE IF Len(a.rows) = 0
       THEN \* the loop over batches has no iteration
            last' = Call("predict", TRUE, a.rows, bs, <<>>, <<>>)
       ELSE IF model.tag # "fitted" \/ ~a.finite \/ ~TwoClasses(model)
       THEN \* predict_proba raises (not fitted, non-finite input), or
            \* probs[:, 1] raises IndexError (one class, one column)
            last' = Call("predict", FALSE, a.rows, bs, <<>>, <<>>)
       ELSE \E s \in ClassifierScores(model, a.rows) :
                last' = Call("predict", TRUE, a.rows, bs, s, <<>>)
    /\ UNCHANGED <<kind, metric, scaler, centroid, model, negative_ratio,
                   min_negative_distance, seed, positive_coords, bbox, np_random,
                   fit_positives>>
    /\ UNCHANGED <<harness, pipeline, scoring, sweep, outputs>>

\* ClassifierMethod.set_spatial_context(positive_coords, bbox)
SetSpatialContext(cs, b) ==
    /\ SamplerIdle
    /\ kind = "classifier"
    /\ positive_coords' = Some(cs)
    /\ bbox' = Some(b)
    /\ last' = Returned("set_spatial_context")
    /\ UNCHANGED <<kind, metric, scaler, centroid, model, negative_ratio,
                   min_negative_distance, seed, np_random, fit_positives>>
    /\ UNCHANGED <<harness, pipeline, scoring, sweep, outputs>>

ATTEMPTS_PER_SAMPLE == 100

\* ClassifierMethod.get_negative_coords() up to the for loop of
\* _generate_negatives: the guards, np.random.seed(self.seed), negatives = []
GetNegativeCoords ==
    /\ pc = "idle"
    /\ kind = "classifier"
    /\ IF positive_coords.tag = "None" \/ bbox.tag = "None"
       THEN \* raise ValueError("Must call set_spatial_context() first")
            /\ last' = Raised("get_negative_coords")
            /\ UNCHANGED <<np_random, pc, n_samples, tries, negatives>>
       ELSE /\ n_samples' = Len(positive_coords.v) * negative_ratio
            /\ np_random' = SeedGlobal(seed)
            /\ negatives' = <<>>
            /\ tries' = 0
            /\ pc' = "loop"
            /\ last' = Returned("running")
    /\ UNCHANGED <<kind, metric, scaler, centroid, model, negative_ratio,
                   min_negative_distance, seed, positive_coords, bbox, fit_positives>>
    /\ UNCHANGED <<harness, pipeline, scoring, sweep, outputs>>

\* np.random.uniform(min_lon, max_lon), np.random.uniform(min_lat, max_lat):
\* the lattice points of the box
BoxCells(b) == {c \in Coords : b[1] <= c[1] /\ c[1] <= b[3] /\ b[2] <= c[2] /\ c[2] <= b[4]}

DistSq(p, c) == (p[1] - c[1]) * (p[1] - c[1]) + (p[2] - c[2]) * (p[2] - c[2])

\* the comparison with >= in place of >
FarOrAtDistance(cs, c, d) == \A i \in 1..Len(cs) : DistSq(cs[i], c) >= d * d

\* dists.min() > self.min_negative_distance, for a distance >= 0
FarFromPositives(cs, c, d) == \A i \in 1..Len(cs) : DistSq(cs[i], c) > d * d

\* for _ in range(n_samples * 100): if len(negatives) >= n_samples: break
SpatialLooping == tries < n_samples * ATTEMPTS_PER_SAMPLE /\ Len(negatives) < n_samples

\* one iteration of the for loop of _generate_negatives, drawing c
SpatialDraw(c) ==
    /\ pc = "loop"
    /\ SpatialLooping
    /\ c \in BoxCells(bbox.v)
    /\ UniformDraws(np_random, bbox.v, c)
    /\ tries' = tries + 1
    /\ np_random' = DrawGlobal(np_random)
    /\ negatives' = IF FarFromPositives(positive_coords.v, c, min_negative_distance)
                    THEN Append(negatives, c)
                    ELSE negatives
    /\ UNCHANGED <<kind, metric, scaler, centroid, model, negative_ratio,
                   min_negative_distance, seed, positive_coords, bbox, pc, n_samples,
                   fit_positives, last>>
    /\ UNCHANGED <<harness, pipeline, scoring, sweep, outputs>>

\* the for loop ends (break, or range exhausted): return negatives; the
\* locals end with the call
SpatialReturn ==
    /\ pc = "loop"
    /\ ~SpatialLooping
    /\ pc' = "idle"
    /\ last' = Call("get_negative_coords", TRUE, <<>>, 0, <<>>, negatives)
    /\ n_samples' = 0
    /\ tries' = 0
    /\ negatives' = <<>>
    /\ UNCHANGED <<kind, metric, scaler, centroid, model, negative_ratio,
                   min_negative_distance, seed, positive_coords, bbox, np_random,
                   fit_positives>>
    /\ UNCHANGED <<harness, pipeline, scoring, sweep, outputs>>

----------------------------------------------------------------------------
(* EmbeddingMosaic: the raster and its coordinate <-> pixel conversion.    *)
(* The class belongs to the finder package; the harness only calls it.     *)
(* A pixel spans 3 steps of the coordinate lattice in each direction, and  *)
(* rows count from the north edge.                                         *)

\* h, w, _ = mosaic.shape
Shape == <<2, 2>>

\* rng.integers(0, h), rng.integers(0, w)
Pixels == (0..(Shape[1] - 1)) \X (0..(Shape[2] - 1))

\* mosaic.coords_to_pixel(lon, lat): the pixel holding the coordinate
coords_to_pixel(lon, lat) == <<(Shape[1] - 1) - (lat \div 3), lon \div 3>>

\* mosaic.pixel_to_coords(row, col): the coordinate of the pixel's centre
pixel_to_coords(row, col) == <<3 * col + 1, 3 * ((Shape[1] - 1) - row) + 1>>

\* mosaic.mosaic, one feature per pixel, 0 being the all-zero vector:
\* every pixel covered, or the north row only
FullCoverage == [p \in Pixels |-> 1]

NorthCoverage == [p \in Pixels |-> IF p[1] = 0 THEN 1 ELSE 0]

Mosaics == {FullCoverage, NorthCoverage}

\* mosaic.sample_at_coords keeps the coordinates inside coverage
Covered(m, c) == m[coords_to_pixel(c[1], c[2])] # 0

\* occurrence coordinates: a corner and an inner point of the north-west
\* pixel, and the centre of the north-east pixel
NorthWestCorner == <<0, 5>>

NorthWestInner == <<2, 3>>

NorthEastCentre == <<4, 4>>

OccCoords == {NorthWestCorner, NorthWestInner, NorthEastCentre}

----------------------------------------------------------------------------
(* experiment.py: sample_background_points and run_single_trial *)

ATTEMPTS_PER_POINT == 10

\* max_attempts = n_points * 10
max_attempts == n_points * ATTEMPTS_PER_POINT

\* np.allclose(emb, 0): features are whole multiples of a unit above the tolerance
AllCloseZero(emb) == emb = 0

\* the loop condition letting one sample too many through
GridLoopingOffByOne == Len(coords) <= n_points /\ attempts < max_attempts

\* while len(coords) < n_points and attempts < max_attempts
GridLooping == Len(coords) < n_points /\ attempts < max_attempts

\* the test without the no-data check
AcceptsNoData(px) == px \notin exclude_pixels

\* if (row, col) not in exclude_pixels: ... if not np.allclose(emb, 0)
Accepts(px) == px \notin exclude_pixels /\ ~AllCloseZero(mosaic[px])

NoGenerator == [seed |-> 0, state |-> 1]

\* np.random.default_rng(s)
default_rng(s) == [seed |-> s, state |-> SeedState(s)]

\* rng.integers(0, h), rng.integers(0, w): the pixel a raw value gives
IntegersOf(r) == <<(r \div Shape[2]) % Shape[1], r % Shape[2]>>

\* the generator in state g can give the pixel px
IntegersDraws(g, px) == ~(\A r \in outputs[g.state] : IntegersOf(r) # px)

\* the sequence s without its k-th entry
Without(s, k) == [i \in 1..(Len(s) - 1) |-> IF i < k THEN s[i] ELSE s[i + 1]]

\* the arrangement of items a raw value gives: its digits pick the entries
\* one after another
RECURSIVE Arrangement(_, _)
Arrangement(r, items) ==
    IF items = <<>> THEN <<>>
    ELSE LET k == (r % Len(items)) + 1
         IN  <<items[k]>> \o Arrangement(r \div Len(items), Without(items, k))

\* rng.permutation(n): the generator in state g can give the permutation perm
PermutationDraws(g, n, perm) ==
    ~(\A r \in outputs[g.state] : Arrangement(r, [i \in 1..n |-> i]) # perm)

\* sample_background_points up to its while loop
SampleStart(n, excl) ==
    /\ n_points' = n
    /\ exclude_coords' = excl
    /\ exclude_pixels' = {coords_to_pixel(excl[i][1], excl[i][2]) : i \in 1..Len(excl)}
    /\ coords' = <<>>
    /\ embeddings' = <<>>
    /\ attempts' = 0
    /\ sampled' = <<>>

\* no trial is running
HarnessIdle == t_pc \in {"idle", "done"}

\* rng.permutation(n)
Permutations(n) == {f \in [1..n -> 1..n] : \A i, j \in 1..n : f[i] = f[j] => i = j}

\* run_single_trial(n, all_occ_emb, valid_coords, mosaic, g) up to the
\* while loop of its first sample_background_points; perm is the
\* permutation drawn
RunSingleTrial(n, g, perm) ==
    /\ kind = "none"
    /\ HarnessIdle
    /\ PermutationDraws(g, Len(valid_coords), perm)
    /\ rng' = Advance(g)
    /\ LET sh == [i \in 1..Len(valid_coords) |-> valid_coords[perm[i]]]
       IN  /\ shuffled_coords' = sh
           /\ SampleStart(n, sh)
    /\ n_pos' = n
    /\ train_neg_coords' = <<>>
    /\ test_neg_coords' = <<>>
    /\ trial_ok' = FALSE
    /\ t_pc' = "train"
    /\ UNCHANGED <<mosaic, valid_coords, method, pipeline, scoring, sweep, outputs>>

\* one iteration of the while loop, drawing (row, col)
GridDraw(row, col) ==
    /\ t_pc \in {"train", "test"}
    /\ GridLooping
    /\ IntegersDraws(rng, <<row, col>>)
    /\ LET px == <<row, col>>
       IN  IF Accepts(px)
           THEN /\ coords' = Append(coords, pixel_to_coords(row, col))
                /\ embeddings' = Append(embeddings, mosaic[px])
                /\ exclude_pixels' = exclude_pixels \cup {px}
                /\ sampled' = Append(sampled, px)
           ELSE UNCHANGED <<coords, embeddings, exclude_pixels, sampled>>
    /\ attempts' = attempts + 1
    /\ rng' = Advance(rng)
    /\ UNCHANGED <<mosaic, valid_coords, t_pc, n_pos, shuffled_coords, train_neg_coords,
                   test_neg_coords, trial_ok, n_points, exclude_coords, method, pipeline, scoring, sweep, outputs>>

\* the first call returns train_neg_coords; the second call starts with
\* n_test points, excluding shuffled_coords + train_neg_coords
TrainNegativesReturn ==
    /\ t_pc = "train"
    /\ ~GridLooping
    /\ train_neg_coords' = coords
    /\ SampleStart(Len(shuffled_coords) - n_pos, shuffled_coords \o coords)
    /\ t_pc' = "test"
    /\ UNCHANGED <<mosaic, valid_coords, n_pos, shuffled_coords, test_neg_coords,
                   trial_ok, rng, method, pipeline, scoring, sweep, outputs>>

\* the second call returns test_neg_coords and its locals end;
\* compute_classifier raises when a sample set is empty (one class to train
\* on, or nothing to score), and otherwise the trial returns its record
TestNegativesReturn ==
    /\ t_pc = "test"
    /\ ~GridLooping
    /\ test_neg_coords' = coords
    /\ trial_ok' = (train_neg_coords # <<>> /\ coords # <<>>)
    /\ t_pc' = "done"
    /\ n_points' = 0
    /\ exclude_coords' = <<>>
    /\ exclude_pixels' = {}
    /\ coords' = <<>>
    /\ embeddings' = <<>>
    /\ attempts' = 0
    /\ sampled' = <<>>
    /\ UNCHANGED <<mosaic, valid_coords, n_pos, shuffled_coords, train_neg_coords, rng,
                   method, pipeline, scoring, sweep, outputs>>

----------------------------------------------------------------------------
(* finder/pipeline.py: PredictionResult and find_candidates; run.py: main. *)
(* The score raster is held as the number of pixels at each of a few score *)
(* levels; which pixel holds which score plays no part in the counts.      *)

\* the score levels of a raster: 0.3, 0.4, 0.45 and 0.5
ScoreLevels == <<<<3, 10>>, <<2, 5>>, <<9, 20>>, <<1, 2>>>>

\* max_points: int = 5000
MAX_POINTS == 5000

\* threshold: float = 0.5 (to_geojson and save)
DEFAULT_THRESHOLD == <<1, 2>>

\* pixel counts of one level: none, one, and as many as the cap
LevelCounts == {0, 1, MAX_POINTS}

\* the rasters predict may give: pixel counts per score level
ScoreMaps == [1..Len(ScoreLevels) -> LevelCounts]

\* rows, cols = np.where(self.scores >= threshold): how many
NumAtLeast(sc, t) ==
    SumSeq([i \in 1..Len(ScoreLevels) |-> IF ScoreLeq(t, ScoreLevels[i]) THEN sc[i] ELSE 0])

\* if len(rows) > max_points: idx = np.random.choice(...)
Subsamples(sc, t, mp) == NumAtLeast(sc, t) > mp

\* PredictionResult.to_geojson(threshold, max_points)["metadata"]
to_geojson(sc, t, mp) ==
    [n_candidates |-> IF Subsamples(sc, t, mp) THEN mp ELSE NumAtLeast(sc, t),
     threshold |-> t]

\* the auto-selection with the bound off by one
AutoSelectInclusive(n) == IF n <= 5 THEN "similarity" ELSE "classifier"

\* if len(positive_embeddings) < 5: method = "similarity" else "classifier"
AutoSelect(n) == IF n < 5 THEN "similarity" ELSE "classifier"

\* if method == "auto": ...
ChooseMethod(m, n) == IF m = "auto" THEN AutoSelect(n) ELSE m

\* threshold = 0.4 if method == "similarity" else 0.5
SaveThreshold(m) == IF m = "similarity" THEN <<2, 5>> ELSE <<1, 2>>

NoResult == [tag |-> "None", method |-> "none", n_occurrences |-> 0, scores |-> <<>>]

\* find_candidates raised; m is the method it had chosen, "none" when it
\* raised before choosing
RaisedResult(m) == [tag |-> "raised", method |-> m, n_occurrences |-> 0, scores |-> <<>>]

\* PredictionResult(method=method, n_occurrences=len(valid_coords), scores=scores_map)
PredictionResult(m, n, sc) ==
    [tag |-> "result", method |-> m, n_occurrences |-> n, scores |-> sc]

NoFile == -1

NotReported == -1

\* the arguments of a find_candidates call that matter here, and the sizes
\* of what it fetched and sampled
FindCall(m, nocc, nval, nneg, out) ==
    [method |-> m, n_occurrences |-> nocc, n_valid |-> nval, n_negative |-> nneg,
     output_dir |-> out]

NoCall == FindCall("none", 0, 0, 0, FALSE)

\* a ClassifierMethod built by get_method("classifier") with no keyword
\* arguments: seed=42
DEFAULT_SEED == 42

\* find_candidates reaches predictor.get_negative_coords(), which seeds the
\* global generator and, asked for a sample, draws from it
ReachesNegativeSampling(m, nocc, nval) ==
    nocc > 0 /\ nval > 0 /\ ChooseMethod(m, nval) = "classifier"

\* find_candidates raises: no occurrence, no valid embedding, a classifier
\* fit on fewer than 2 positives, or a classifier with no negative to fit
\* on (its predict has one class to give a probability for)
FindRaises(m, nocc, nval, nneg) ==
    \/ nocc = 0
    \/ nval = 0
    \/ /\ ChooseMethod(m, nval) = "classifier"
       /\ TooFewPositives([i \in 1..nval |-> 0]) \/ nneg = 0

\* find_candidates(species_name, bbox, cache_dir, method, output_dir) as
\* called with: method m, nocc occurrences fetched of which nval have an
\* embedding, nneg of the negatives have one, predict gives the raster sc,
\* and out tells whether output_dir is given
FindCandidatesBody(m, nocc, nval, nneg, sc, out) ==
    /\ kind = "none"
    /\ pc = "idle"
    /\ call' = FindCall(m, nocc, nval, nneg, out)
    /\ IF FindRaises(m, nocc, nval, nneg)
       THEN /\ result' = RaisedResult(IF nocc = 0 \/ nval = 0 THEN "none"
                                      ELSE ChooseMethod(m, nval))
            /\ candidates_file' = candidates_file
            /\ np_random' = IF ReachesNegativeSampling(m, nocc, nval)
                            THEN DrawGlobal(SeedGlobal(DEFAULT_SEED))
                            ELSE np_random
       ELSE LET chosen == ChooseMethod(m, nval)
                seeded == IF chosen = "classifier"
                          THEN DrawGlobal(SeedGlobal(DEFAULT_SEED))
                          ELSE np_random
            IN  /\ result' = PredictionResult(chosen, nval, sc)
                /\ candidates_file' =
                       IF out
                       THEN to_geojson(sc, SaveThreshold(chosen), MAX_POINTS).n_candidates
                       ELSE candidates_file
                /\ np_random' =
                       IF out /\ Subsamples(sc, SaveThreshold(chosen), MAX_POINTS)
                       THEN DrawGlobal(seeded)
                       ELSE seeded
    /\ UNCHANGED <<kind, metric, scaler, centroid, model, negative_ratio,
                   min_negative_distance, seed, positive_coords, bbox,
                   pc, n_samples, tries, negatives, fit_positives, last>>
    /\ UNCHANGED <<harness, scoring, sweep, outputs>>

\* result.to_geojson(threshold, max_points) on a result holding the raster
\* sc, called between two calls on a method or two trials
ToGeojson(sc, t, mp) ==
    /\ pc = "idle"
    /\ HarnessIdle
    /\ np_random' = IF Subsamples(sc, t, mp) THEN DrawGlobal(np_random) ELSE np_random
    /\ UNCHANGED <<kind, metric, scaler, centroid, model, negative_ratio,
                   min_negative_distance, seed, positive_coords, bbox,
                   pc, n_samples, tries, negatives, fit_positives, last>>
    /\ UNCHANGED <<harness, pipeline, scoring, sweep, outputs>>

\* find_candidates called as a library function
FindCandidates(m, nocc, nval, nneg, sc, out) ==
    /\ FindCandidatesBody(m, nocc, nval, nneg, sc, out)
    /\ reported' = NotReported

\* run.py main: find_candidates with an output directory, then the printed
\* summary with result.to_geojson()['metadata']['n_candidates']; a raise of
\* find_candidates ends the run with nothing printed
Main(m, nocc, nval, nneg, sc) ==
    /\ FindCandidatesBody(m, nocc, nval, nneg, sc, TRUE)
    /\ reported' = IF FindRaises(m, nocc, nval, nneg)
                   THEN NotReported
                   ELSE to_geojson(sc, DEFAULT_THRESHOLD, MAX_POINTS).n_candidates

InitPipeline ==
    /\ call = NoCall
    /\ result = NoResult
    /\ candidates_file = NoFile
    /\ reported = NotReported

----------------------------------------------------------------------------
(* experiment.py: compute_auc *)

\* a > b for two non-NaN scores
ScoreGt(a, b) == a[1] * b[2] > b[1] * a[2]

\* the comparison counting a tie as correct
OutscoresOrTies(p, n) == ~ScoreGt(n, p)

\* (p > n)
Outscores(p, n) == ScoreGt(p, n)

\* sum((p > n) for p in pos_scores for n in neg_scores)
RECURSIVE NumCorrect(_, _)
NumCorrect(ps, ns) ==
    IF ps = <<>> THEN 0
    ELSE SumSeq([j \in 1..Len(ns) |-> IF Outscores(Head(ps), ns[j]) THEN 1 ELSE 0])
             + NumCorrect(Tail(ps), ns)

\* compute_auc(pos_scores, neg_scores)
compute_auc(ps, ns) ==
    LET n_comparisons == Len(ps) * Len(ns)
    IN  IF n_comparisons = 0 THEN <<1, 2>> ELSE Rat(NumCorrect(ps, ns), n_comparisons)

NoAuc == <<-1, 1>>

\* a call compute_auc(pos_scores, neg_scores)
ComputeAuc ==
    /\ auc = NoAuc
    /\ auc' = compute_auc(pos_scores, neg_scores)
    /\ UNCHANGED <<pos_scores, neg_scores>>
    /\ UNCHANGED <<method, harness, pipeline, sweep, outputs>>

InitScoring ==
    /\ pos_scores = <<>>
    /\ neg_scores = <<>>
    /\ auc = NoAuc

----------------------------------------------------------------------------
(* experiment.py: run_species_experiment.  A trial is taken as one step    *)
(* here and its lists by their lengths: a sample_background_points call    *)
(* returns the number asked for or, for want of free pixels or of attempts, *)
(* fewer.                                                                   *)

N_POSITIVE_VALUES == <<1, 2, 5, 10, 20, 50, 100>>

N_TRIALS == 5

BASE_SEED == 42

\* if n_total < 25: return None
TooFewOccurrences(n) == n < 25

\* the guard of the sweep without its margin
SkipsSizeNoMargin(np, nt) == np >= nt

\* if n_pos >= n_total - 10: continue
SkipsSize(np, nt) == np >= nt - 10

\* what a short sample_background_points call asked for n points returns:
\* nothing, or one point fewer
ShortCounts(n) == {0, n - 1} \cap (0..(n - 1))

\* the dict run_single_trial returns, with "seed" as the caller sets it
TrialResult(sd, np, ntest, got_train, got_test) ==
    [seed |-> sd,
     n_test_positive |-> ntest,
     n_test_negative |-> got_test,
     len_train_positive |-> np,
     len_train_negative |-> got_train,
     len_test_positive |-> ntest,
     len_test_negative |-> got_test]

\* exp_data
ExpData(np, ts) ==
    [n_positive |-> np, n_negative |-> np, n_trials |-> N_TRIALS, trials |-> ts]

\* no run of run_species_experiment is under way
SweepIdle == s_pc \in {"idle", "none", "returned"}

\* run_species_experiment(species_name, mosaic) up to its loop over
\* N_POSITIVE_VALUES; nt occurrences have an embedding
RunSpeciesExperiment(nt) ==
    /\ kind = "none"
    /\ SweepIdle
    /\ n_total' = nt
    /\ s_pc' = IF TooFewOccurrences(nt) THEN "none" ELSE "sizes"
    /\ size_idx' = IF TooFewOccurrences(nt) THEN 0 ELSE 1
    /\ trial_idx' = 0
    /\ trials' = <<>>
    /\ experiments' = <<>>
    /\ shortfalls' = 0
    /\ UNCHANGED <<method, harness, pipeline, scoring, outputs>>

\* for n_pos in N_POSITIVE_VALUES: the next size is skipped or its trials
\* begin; after the last size the function returns
NextSize ==
    /\ s_pc = "sizes"
    /\ IF size_idx > Len(N_POSITIVE_VALUES)
       THEN /\ s_pc' = "returned"
            /\ size_idx' = 0
            /\ UNCHANGED <<trial_idx, trials>>
       ELSE IF SkipsSize(N_POSITIVE_VALUES[size_idx], n_total)
       THEN /\ size_idx' = size_idx + 1
            /\ UNCHANGED <<s_pc, trial_idx, trials>>
       ELSE /\ s_pc' = "trials"
            /\ trial_idx' = 0
            /\ trials' = <<>>
            /\ UNCHANGED size_idx
    /\ UNCHANGED <<n_total, experiments, shortfalls>>
    /\ UNCHANGED <<method, harness, pipeline, scoring, outputs>>

\* for trial_idx in range(N_TRIALS): one trial, whose two sampler calls
\* return got_train and got_test points; compute_classifier raises on an
\* empty sample set and the exception leaves run_species_experiment
Trial(got_train, got_test) ==
    /\ s_pc = "trials"
    /\ trial_idx < N_TRIALS
    /\ LET np == N_POSITIVE_VALUES[size_idx]
           ntest == n_total - np
           short == (IF got_train < np THEN 1 ELSE 0) + (IF got_test < ntest THEN 1 ELSE 0)
       IN  /\ got_train \in ShortCounts(np) \cup {np}
           /\ got_test \in ShortCounts(ntest) \cup {ntest}
           /\ shortfalls' = shortfalls + short
           /\ IF got_train = 0 \/ got_test = 0
              THEN /\ s_pc' = "raised"
                   /\ UNCHANGED <<trial_idx, trials>>
              ELSE /\ trials' = Append(trials, TrialResult(BASE_SEED + trial_idx, np, ntest,
                                                           got_train, got_test))
                   /\ trial_idx' = trial_idx + 1
                   /\ UNCHANGED s_pc
    /\ UNCHANGED <<n_total, size_idx, experiments>>
    /\ UNCHANGED <<method, harness, pipeline, scoring, outputs>>

\* after the last trial: experiments.append(exp_data)
EndSize ==
    /\ s_pc = "trials"
    /\ trial_idx = N_TRIALS
    /\ experiments' = Append(experiments, ExpData(N_POSITIVE_VALUES[size_idx], trials))
    /\ size_idx' = size_idx + 1
    /\ s_pc' = "sizes"
    /\ trial_idx' = 0
    /\ trials' = <<>>
    /\ UNCHANGED <<n_total, shortfalls>>
    /\ UNCHANGED <<method, harness, pipeline, scoring, outputs>>

InitSweep ==
    /\ s_pc = "idle"
    /\ n_total = 0
    /\ size_idx = 0
    /\ trial_idx = 0
    /\ trials = <<>>
    /\ experiments = <<>>
    /\ shortfalls = 0

----------------------------------------------------------------------------
(* The life of one method instance *)

BatchSizes(rows) == (1..Len(rows)) \cup {DEFAULT_BATCH}

FitArrays == Arrays(Feat, MaxVecs)

SmallArrays == Arrays(Feat, MaxRows)

\* the arrays of Spec: positives of up to two rows over RepFeat, negatives
\* and predicted arrays of up to one row, and the non-finite array
RepArrays == Arrays(RepFeat, 2)

SmallRepArrays == Arrays(RepFeat, 1)

\* the arrays predict is called on: a set of arrays, and the positives of
\* the last fit
PredictArrays(A) == A \cup {Arr(fit_positives.v)}

\* the spatial contexts given to set_spatial_context in Spec: no positive,
\* and one positive west of the box
MethodContexts == {<<<<>>, FullBox>>, <<<<Origin>>, EastBox>>}

\* no call of _generate_negatives is under way
InitSamplerLocals ==
    /\ pc = "idle"
    /\ n_samples = 0
    /\ tries = 0
    /\ negatives = <<>>

InitSampler ==
    /\ outputs = FreeOutputs
    /\ np_random = Unseeded
    /\ InitSamplerLocals

InitHarness(m, vc) ==
    /\ mosaic = m
    /\ valid_coords = vc
    /\ t_pc = "idle"
    /\ n_pos = 0
    /\ shuffled_coords = <<>>
    /\ train_neg_coords = <<>>
    /\ test_neg_coords = <<>>
    /\ trial_ok = FALSE
    /\ n_points = 0
    /\ exclude_coords = <<>>
    /\ exclude_pixels = {}
    /\ coords = <<>>
    /\ embeddings = <<>>
    /\ attempts = 0
    /\ sampled = <<>>
    /\ rng = NoGenerator

\* experiment.py constructs no PredictionMethod
InitNoMethod ==
    /\ kind = "none"
    /\ metric = "none"
    /\ scaler = NoScaler
    /\ centroid = NoCentroid
    /\ model = NoModel
    /\ negative_ratio = 0
    /\ min_negative_distance = 0
    /\ seed = 0
    /\ positive_coords = NoList
    /\ bbox = NoList
    /\ fit_positives = NoList
    /\ last = Returned("init")

InitSimilarity(m) ==
    /\ kind = "similarity"
    /\ metric = m
    /\ scaler = NoScaler
    /\ centroid = NoCentroid
    /\ model = NoModel
    /\ negative_ratio = 0
    /\ min_negative_distance = 0
    /\ seed = 0
    /\ positive_coords = NoList
    /\ bbox = NoList
    /\ fit_positives = NoList
    /\ last = Returned("init")

InitClassifier(r, d, sd) ==
    /\ kind = "classifier"
    /\ metric = "none"
    /\ scaler = NoScaler
    /\ centroid = NoCentroid
    /\ model = NoModel
    /\ negative_ratio = r
    /\ min_negative_distance = d
    /\ seed = sd
    /\ positive_coords = NoList
    /\ bbox = NoList
    /\ fit_positives = NoList
    /\ last = Returned("init")

Metrics == {"cosine", "euclidean"}

Init ==
    /\ InitSampler
    /\ InitHarness(FullCoverage, <<>>)
    /\ InitPipeline
    /\ InitScoring
    /\ InitSweep
    /\ \/ \E m \in Metrics : InitSimilarity(m)
       \/ InitClassifier(1, 0, 42)

\* Any sequence of calls on one instance, with representative arguments
Next ==
    \/ \E m \in Metrics : ConstructSimilarity(m)
    \/ ConstructClassifier(1, 0, 42)
    \/ \E a \in RepArrays : \E resid \in Residues(metric, a.rows) : SimilarityFit(a, resid)
    \/ \E a \in PredictArrays(SmallRepArrays) : \E bs \in BatchSizes(a.rows) :
           SimilarityPredict(a, bs)
    \/ \E pos \in RepArrays : \E neg \in SmallRepArrays : ClassifierFit(pos, neg, TRUE)
    \/ \E pos \in RepArrays : ClassifierFit(pos, Arr(<<>>), FALSE)
    \/ \E a \in PredictArrays(SmallRepArrays) : \E bs \in BatchSizes(a.rows) :
           ClassifierPredict(a, bs)
    \/ \E cx \in MethodContexts : SetSpatialContext(cx[1], cx[2])
    \/ GetNegativeCoords
    \/ \E c \in Coords : SpatialDraw(c)
    \/ SpatialReturn

Spec == Init /\ [][Next]_vars

----------------------------------------------------------------------------
(* One SimilarityMethod, fit on any positive array until a fit returns, *)
(* then predicted on.                                                    *)

SimilarityInit ==
    /\ InitSampler
    /\ InitHarness(FullCoverage, <<>>)
    /\ InitPipeline
    /\ InitScoring
    /\ InitSweep
    /\ InitPipeline
    /\ InitScoring
    /\ InitSweep
    /\ \E m \in Metrics : InitSimilarity(m)

FirstFit(a, resid) ==
    /\ fit_positives.tag = "None"
    /\ SimilarityFit(a, resid)

SimilarityNext ==
    \/ \E a \in FitArrays : \E resid \in Residues(metric, a.rows) : FirstFit(a, resid)
    \/ \E a \in PredictArrays(SmallArrays) : \E bs \in BatchSizes(a.rows) :
           SimilarityPredict(a, bs)

SimilaritySpec == SimilarityInit /\ [][SimilarityNext]_vars

----------------------------------------------------------------------------
(* The two negative samplers: a ClassifierMethod given spatial contexts    *)
(* and asked for negative coordinates, or the harness running trials on    *)
(* the occurrences of one species.  The code is sequential, so a loop that *)
(* has begun keeps stepping until it returns.                              *)

MaxOcc == 3         \* coordinates in valid_coords

\* all_occ_emb, valid_coords = mosaic.sample_at_coords(occurrences): covered
\* coordinates, repeats allowed.  The lists are taken in west-to-east order
\* only: run_single_trial reads valid_coords through rng.permutation alone,
\* so every arrangement of a list is one of its shuffles.
OccurrenceLists(m) ==
    {vc \in SeqsUpTo(OccCoords, MaxOcc) :
        /\ \A i \in 1..Len(vc) : Covered(m, vc[i])
        /\ \A i, j \in 1..Len(vc) : i < j => vc[i][1] <= vc[j][1]}

\* the positives of a spatial context: distinct points, listed west to east
\* and south to north only. _generate_negatives reads the list through len()
\* and through the minimum of the distances to it, which no rearrangement
\* changes
ContextLists(n) ==
    {cs \in CoordLists(n) :
        \A i, j \in 1..Len(cs) :
            i < j => \/ cs[i][1] < cs[j][1]
                     \/ cs[i][1] = cs[j][1] /\ cs[i][2] < cs[j][2]}

SamplingInit ==
    /\ InitSampler
    /\ InitPipeline
    /\ InitScoring
    /\ InitSweep
    /\ \/ \E r \in Ratios : \E d \in Dists :
              InitClassifier(r, d, 42) /\ InitHarness(FullCoverage, <<>>)
       \/ \E m \in Mosaics : \E vc \in OccurrenceLists(m) :
              InitNoMethod /\ InitHarness(m, vc)

SamplerStep ==
    \/ \E c \in Coords : SpatialDraw(c)
    \/ SpatialReturn
    \/ \E px \in Pixels : GridDraw(px[1], px[2])
    \/ TrainNegativesReturn
    \/ TestNegativesReturn

SamplingNext ==
    \/ /\ SamplerIdle
       /\ kind = "classifier"
       /\ \E cs \in ContextLists(MaxCoords) : \E b \in SamplingBoxes : SetSpatialContext(cs, b)
    \/ GetNegativeCoords
    \/ \E c \in Coords : SpatialDraw(c)
    \/ SpatialReturn
    \/ /\ HarnessIdle
       /\ \E n \in 1..(Len(valid_coords) - 1) : \E perm \in Permutations(Len(valid_coords)) :
              RunSingleTrial(n, default_rng(BASE_SEED), perm)
    \/ \E px \in Pixels : GridDraw(px[1], px[2])
    \/ TrainNegativesReturn
    \/ TestNegativesReturn

SamplingSpec == SamplingInit /\ [][SamplingNext]_vars /\ WF_vars(SamplerStep)

----------------------------------------------------------------------------
(* One process that calls find_candidates once, as a library function or  *)
(* through the command line of run.py.                                     *)

MaxValid == 6       \* occurrences fetched for a species

\* choices=["auto", "similarity", "classifier"]
MethodNames == {"auto", "similarity", "classifier"}

PipelineInit ==
    /\ InitSampler
    /\ InitHarness(FullCoverage, <<>>)
    /\ InitPipeline
    /\ InitScoring
    /\ InitSweep
    /\ InitNoMethod

FirstCall == call = NoCall

PipelineNext ==
    \/ /\ FirstCall
       /\ \E m \in MethodNames : \E nocc \in 0..MaxValid : \E nval \in 0..nocc :
          \E nneg \in 0..1 : \E sc \in ScoreMaps : \E out \in BOOLEAN :
              FindCandidates(m, nocc, nval, nneg, sc, out)
    \/ /\ FirstCall
       /\ \E m \in MethodNames : \E nocc \in 0..MaxValid : \E nval \in 0..nocc :
          \E nneg \in 0..1 : \E sc \in ScoreMaps :
              Main(m, nocc, nval, nneg, sc)

PipelineSpec == PipelineInit /\ [][PipelineNext]_vars

----------------------------------------------------------------------------
(* compute_auc called on two lists of scores *)

MaxScores == 2      \* scores in a list given to compute_auc

\* the scores 0.1, 0.2, 0.8 and 0.9
AucScores == {<<1, 10>>, <<1, 5>>, <<4, 5>>, <<9, 10>>}

AucInit ==
    /\ InitSampler
    /\ InitHarness(FullCoverage, <<>>)
    /\ InitPipeline
    /\ InitSweep
    /\ InitNoMethod
    /\ pos_scores \in SeqsUpTo(AucScores, MaxScores)
    /\ neg_scores \in SeqsUpTo(AucScores, MaxScores)
    /\ auc = NoAuc

AucNext == ComputeAuc

AucSpec == AucInit /\ [][AucNext]_vars

----------------------------------------------------------------------------
(* run_species_experiment on species after species, as run_all_experiments *)
(* calls it.  At most MaxShort sampler calls of a run return short.        *)

MaxShort == 1       \* sampler calls of one run that return short

\* numbers of valid occurrences: one below the minimum, the minimum, and
\* the two around the count that leaves exactly 10 test positives at n_pos = 20
OccurrenceCounts == {24, 25, 30, 31}

SweepInit ==
    /\ InitSampler
    /\ InitHarness(FullCoverage, <<>>)
    /\ InitPipeline
    /\ InitScoring
    /\ InitSweep
    /\ InitNoMethod

SweepNext ==
    \/ \E nt \in OccurrenceCounts : RunSpeciesExperiment(nt)
    \/ NextSize
    \/ \E got_train, got_test \in 0..(n_total + 1) :
           Trial(got_train, got_test) /\ shortfalls' <= MaxShort
    \/ EndSize

SweepSpec == SweepInit /\ [][SweepNext]_vars

----------------------------------------------------------------------------
(* The two negative samplers with the generators as the deterministic      *)
(* machines they are: a generator has DetPeriod states, a seed fixes its   *)
(* state and its state fixes the raw value it gives.  A ClassifierMethod   *)
(* is asked for negatives again and again, with draws of other consumers   *)
(* of the global generator in between; or trials are run one after the     *)
(* other as run_species_experiment runs them.                              *)

DetPeriod == 2      \* states of a generator

\* the raw values of a generator's table
DetRaw == 0..5

DetOutputs == [1..DetPeriod -> {{r} : r \in DetRaw}]

\* spatial contexts: no positive, one at the origin, one at the far corner
DetContexts == {<<<<>>, FullBox>>, <<<<Origin>>, FullBox>>, <<<<<<1, 1>>>>, FullBox>>}

\* the occurrences of a species: two or three, on the two northern pixels
DetOccurrences ==
    {<<NorthWestCorner, NorthEastCentre>>, <<NorthWestCorner, NorthWestInner, NorthEastCentre>>}

\* a raster with more than max_points pixels at or above every threshold
CrowdedMap == [i \in 1..Len(ScoreLevels) |-> MAX_POINTS + 1]

DeterminismInit ==
    /\ outputs \in DetOutputs
    /\ \E k \in 1..DetPeriod : np_random = [Unseeded EXCEPT !.state = k]
    /\ InitSamplerLocals
    /\ InitPipeline
    /\ InitScoring
    /\ InitSweep
    /\ \/ \E r \in Ratios : \E d \in Dists :
              InitClassifier(r, d, 42) /\ InitHarness(FullCoverage, <<>>)
       \/ \E vc \in DetOccurrences : InitNoMethod /\ InitHarness(FullCoverage, vc)

\* for trial_idx in range(N_TRIALS): rng = np.random.default_rng(BASE_SEED + trial_idx);
\* run_single_trial(n_pos, all_occ_emb, valid_coords, mosaic, rng)
TrialOfSweep(n, idx, perm) == RunSingleTrial(n, default_rng(BASE_SEED + idx), perm)

DeterminismNext ==
    \/ \E cx \in DetContexts : SetSpatialContext(cx[1], cx[2])
    \/ GetNegativeCoords
    \/ \E c \in Coords : SpatialDraw(c)
    \/ SpatialReturn
    \/ /\ kind = "classifier"
       /\ ToGeojson(CrowdedMap, DEFAULT_THRESHOLD, MAX_POINTS)
    \/ /\ HarnessIdle
       /\ \E n \in 1..(Len(valid_coords) - 1) : \E idx \in 0..(N_TRIALS - 1) :
          \E perm \in Permutations(Len(valid_coords)) : TrialOfSweep(n, idx, perm)
    \/ \E px \in Pixels : GridDraw(px[1], px[2])
    \/ TrainNegativesReturn
    \/ TestNegativesReturn

DeterminismSpec == DeterminismInit /\ [][DeterminismNext]_vars

----------------------------------------------------------------------------
(* Claims *)

Fitted == fit_positives.tag = "some"

\* C1: predict on an instance on which no fit has returned raises an error
\* and returns no scores, whatever calls came before.
C1_PredictUnfitRaises ==
    (last.op = "predict" /\ ~Fitted) => (~last.ok /\ last.scores = <<>>)

\* C2: ClassifierMethod.fit with fewer than 2 positive rows raises, for
\* every negative argument, and leaves _model as it was.
C2_ShortFitFails ==
    [][(kind = "classifier" /\ last'.op = "fit" /\ Len(last'.arr) < 2)
          => (~last'.ok /\ model' = model)]_vars

C2_Witness ==
    /\ kind = "classifier"
    /\ last.op = "fit"
    /\ Len(last.arr) = 1
    /\ ~last.ok
    /\ model.tag = "fitted"

\* C3: after a cosine fit on n_pos >= 1 rows the stored centroid is a
\* defined vector of unit norm.
C3_CosineCentroidUnit ==
    (kind = "similarity" /\ metric = "cosine" /\ Fitted /\ Len(fit_positives.v) >= 1)
        => (centroid.tag = "unit" /\ centroid.v * centroid.v = 1)

\* C4: on a fitted method of any kind, a predict of N rows with a batch
\* size from 1 to N that returns gives exactly N scores, each in the closed
\* interval [0, 1].
C4_ScoresInUnitInterval ==
    (last.op = "predict" /\ last.ok /\ Fitted /\ last.bs \in 1..Len(last.arr))
        => /\ Len(last.scores) = Len(last.arr)
           /\ \A i \in 1..Len(last.scores) : InUnit(last.scores[i])

\* C5: the scores of a cosine predict do not depend on the batch size: each
\* row's score is the score of that row predicted alone, and the array is
\* the one a single batch of all rows gives.
C5_CosineBatchIndependent ==
    (kind = "similarity" /\ metric = "cosine" /\ last.op = "predict" /\ last.ok)
        => /\ Len(last.scores) = Len(last.arr)
           /\ \A i \in 1..Len(last.arr) :
                  last.scores[i] =
                      SimilarityScores(metric, scaler, centroid, <<last.arr[i]>>, 1)[1]
           /\ last.scores =
                  SimilarityScores(metric, scaler, centroid, last.arr, Len(last.arr))

C5_Witness ==
    /\ kind = "similarity"
    /\ metric = "cosine"
    /\ last.op = "predict"
    /\ last.ok
    /\ Len(last.arr) = 3
    /\ last.bs = 2
    /\ centroid.tag = "unit"
    /\ \E i, j \in 1..3 : last.scores[i] # last.scores[j]

\* the standardized distance of a fitted positive row from the centroid,
\* in units of 1/(n^2*scale_)
CentroidDistance(x) == Abs(scaler.n * Transform(scaler, x) - centroid.v)

\* C6: euclidean predict on the fitted positives, with any batch size: a
\* row closer to the centroid than another does not score lower.
C6_EuclideanMonotone ==
    (kind = "similarity" /\ metric = "euclidean" /\ Fitted
        /\ last.op = "predict" /\ last.ok /\ last.arr = fit_positives.v)
        => \A i, j \in 1..Len(last.arr) :
               CentroidDistance(last.arr[i]) < CentroidDistance(last.arr[j])
                   => ScoreLeq(last.scores[j], last.scores[i])

\* the pixel of a coordinate pair, and the pixels of a coordinate list
PixelOf(c) == coords_to_pixel(c[1], c[2])

PixelsOf(cs) == {PixelOf(cs[i]) : i \in 1..Len(cs)}

\* C7: every coordinate get_negative_coords returns lies inside the
\* bounding box of the spatial context and strictly farther than
\* min_negative_distance from every positive coordinate of it, and at most
\* len(positives) * negative_ratio coordinates are returned.
C7_SpatialNegativesFarInBox ==
    (kind = "classifier" /\ last.op = "get_negative_coords" /\ last.ok)
        => /\ Len(last.coords) <= Len(positive_coords.v) * negative_ratio
           /\ \A i \in 1..Len(last.coords) :
                  /\ bbox.v[1] <= last.coords[i][1] /\ last.coords[i][1] <= bbox.v[3]
                  /\ bbox.v[2] <= last.coords[i][2] /\ last.coords[i][2] <= bbox.v[4]
                  /\ \A j \in 1..Len(positive_coords.v) :
                         DistSq(positive_coords.v[j], last.coords[i])
                             > min_negative_distance * min_negative_distance

C7_Witness ==
    /\ kind = "classifier"
    /\ last.op = "get_negative_coords"
    /\ last.ok
    /\ Len(last.coords) = 2
    /\ Len(positive_coords.v) = 1
    /\ min_negative_distance = 1
    /\ bbox.v = FullBox

\* the draws and samples of both samplers stay within their caps: at most
\* n_samples * 100 iterations and n_samples negatives (spatial), at most
\* n_points * 10 attempts and n_points samples (grid)
SamplersBounded ==
    /\ tries <= n_samples * 100
    /\ Len(negatives) <= n_samples
    /\ (last.op = "get_negative_coords" /\ last.ok)
           => Len(last.coords) <= Len(positive_coords.v) * negative_ratio
    /\ attempts <= n_points * 10
    /\ Len(coords) <= n_points
    /\ t_pc \in {"test", "done"} => Len(train_neg_coords) <= n_pos
    /\ t_pc = "done" => Len(test_neg_coords) <= Len(shuffled_coords) - n_pos

\* a sampling loop of either sampler has begun and not returned
SamplerRunning == pc = "loop" \/ t_pc \in {"train", "test"}

\* C8: both samplers terminate and stay within their caps: a sampling loop
\* that has begun returns, after at most n_samples * 100 (spatial) or
\* n_points * 10 (grid) draws, with at most the requested number of
\* samples, also when every draw is rejected.
C8_SamplersTerminate ==
    /\ []SamplersBounded
    /\ SamplerRunning ~> ~SamplerRunning

\* a trial both of whose grid calls were asked for a sample and, every draw
\* rejected, returned none
C8_Witness ==
    /\ t_pc = "done"
    /\ n_pos > 0
    /\ Len(shuffled_coords) - n_pos > 0
    /\ train_neg_coords = <<>>
    /\ test_neg_coords = <<>>

\* C9: in both samplers an accepted sample is in the exclusion set from
\* then on, and no two negatives of one call coincide.
C9_NegativesDistinct ==
    /\ \A i \in 1..Len(sampled) : sampled[i] \in exclude_pixels
    /\ \A i, j \in 1..Len(coords) : i # j => coords[i] # coords[j]
    /\ \A i, j \in 1..Len(negatives) : i # j => negatives[i] # negatives[j]
    /\ (last.op = "get_negative_coords" /\ last.ok)
           => \A i, j \in 1..Len(last.coords) : i # j => last.coords[i] # last.coords[j]

\* C10: every sample of the grid sampler is a pixel of the raster that is
\* not the pixel of an excluded coordinate and does not hold the all-zero
\* vector; and when a trial has sampled, its training negatives, its
\* evaluation negatives and its positives lie on pairwise disjoint pixels.
C10_GridSamplesAndTrialDisjoint ==
    /\ Len(sampled) = Len(coords)
    /\ Len(embeddings) = Len(coords)
    /\ \A i \in 1..Len(coords) :
           /\ sampled[i] \in Pixels
           /\ PixelOf(coords[i]) = sampled[i]
           /\ sampled[i] \notin PixelsOf(exclude_coords)
           /\ mosaic[sampled[i]] # 0
           /\ embeddings[i] # 0
    /\ t_pc = "done"
           => /\ PixelsOf(train_neg_coords) \cap PixelsOf(test_neg_coords) = {}
              /\ PixelsOf(train_neg_coords) \cap PixelsOf(shuffled_coords) = {}
              /\ PixelsOf(test_neg_coords) \cap PixelsOf(shuffled_coords) = {}
              /\ \A c \in PixelsOf(train_neg_coords) \cup PixelsOf(test_neg_coords) :
                     c \in Pixels /\ mosaic[c] # 0

C10_Witness ==
    /\ t_pc = "done"
    /\ trial_ok
    /\ Len(shuffled_coords) = 3
    /\ train_neg_coords # <<>>
    /\ test_neg_coords # <<>>
    /\ \E i \in 1..Len(shuffled_coords) :
           pixel_to_coords(PixelOf(shuffled_coords[i])[1], PixelOf(shuffled_coords[i])[2])
               # shuffled_coords[i]

\* C11: a find_candidates call that reaches the choice of method, called
\* with "auto", uses Similarity exactly when fewer than 5 positive feature
\* vectors are valid and Classifier exactly when 5 or more are; called with
\* a method by name, it uses that method whatever the sample count.
C11_AutoSelectsBySampleCount ==
    (result.method # "none")
        => /\ call.method = "auto"
                  => /\ (result.method = "similarity") <=> (call.n_valid < 5)
                     /\ (result.method = "classifier") <=> (call.n_valid >= 5)
           /\ call.method # "auto" => result.method = call.method

C11_Witness ==
    /\ result.tag = "result"
    /\ call.method = "auto"
    /\ call.n_valid = 5
    /\ result.method = "classifier"

\* C18: the candidate count the command line prints for candidates.geojson
\* is the number of features find_candidates wrote to that file, for both
\* methods.
C18_ReportedCountMatchesFile ==
    (reported # NotReported) => (reported = candidates_file)

\* C12: compute_auc returns the number of (positive, negative) score pairs
\* whose positive score is strictly greater, divided by the number of pairs,
\* and 0.5 when either list is empty: [0.9, 0.8] against [0.1, 0.2] gives
\* 1.0, [0.1] against [0.9] gives 0.0, and the result lies in [0, 1].
C12_AucIsPairFraction ==
    (auc # NoAuc)
        => LET won == {ij \in (1..Len(pos_scores)) \X (1..Len(neg_scores)) :
                          pos_scores[ij[1]][1] * neg_scores[ij[2]][2]
                              > neg_scores[ij[2]][1] * pos_scores[ij[1]][2]}
               pairs == Len(pos_scores) * Len(neg_scores)
           IN  /\ (pos_scores = <<>> \/ neg_scores = <<>>) => auc = <<1, 2>>
               /\ pairs > 0 => auc[1] * pairs = Cardinality(won) * auc[2]
               /\ InUnit(auc)
               /\ (pos_scores = <<<<9, 10>>, <<4, 5>>>> /\ neg_scores = <<<<1, 10>>, <<1, 5>>>>)
                      => auc = <<1, 1>>
               /\ (pos_scores = <<<<1, 10>>>> /\ neg_scores = <<<<9, 10>>>>) => auc = <<0, 1>>

\* an AUC computed over two pairs, one of them a tie
C12_Witness ==
    /\ auc = <<1, 2>>
    /\ pos_scores = <<<<9, 10>>, <<1, 5>>>>
    /\ neg_scores = <<<<1, 5>>>>

\* C13: every training size in the experiments list, and every size whose
\* trials are run, leaves at least 10 held-out test positives.
C13_RecordedSizesLeaveTestSet ==
    /\ \A i \in 1..Len(experiments) : n_total - experiments[i].n_positive >= 10
    /\ s_pc = "trials" => n_total - N_POSITIVE_VALUES[size_idx] >= 10
    /\ \A i \in 1..Len(trials) : trials[i].n_test_positive >= 10

C13_Witness ==
    /\ s_pc = "returned"
    /\ n_total = 31
    /\ Len(experiments) = 5
    /\ experiments[5].n_positive = 20
    /\ experiments[5].trials[1].n_test_positive = 11

\* C16: the n_negative recorded for an experiment is the number of training
\* negatives each of its trials used, and a trial's n_test_negative is the
\* number of evaluation negatives it drew, also when a sampler returned
\* fewer than asked for.
C16_RecordedCountsAreActual ==
    \A i \in 1..Len(experiments) : \A t \in 1..Len(experiments[i].trials) :
        /\ experiments[i].n_negative = experiments[i].trials[t].len_train_negative
        /\ experiments[i].trials[t].n_test_negative
               = experiments[i].trials[t].len_test_negative

\* C17: a run on at least 25 valid occurrences that returns has, for every
\* training size of the sweep leaving at least 10 held-out test positives
\* (exactly 10 included), an entry in the experiments list with N_TRIALS
\* trials.
C17_EverySizeWithTestSetRuns ==
    (s_pc = "returned" /\ n_total >= 25)
        => \A k \in 1..Len(N_POSITIVE_VALUES) :
               n_total - N_POSITIVE_VALUES[k] >= 10
                   => \E i \in 1..Len(experiments) :
                          /\ experiments[i].n_positive = N_POSITIVE_VALUES[k]
                          /\ Len(experiments[i].trials) = N_TRIALS

\* C14: negative sampling never reads or writes the process-global random
\* generator: no step of get_negative_coords or of sample_background_points
\* changes its state.
C14_SamplingLeavesGlobalGenerator ==
    [][(pc = "loop" \/ pc' = "loop" \/ t_pc \in {"train", "test"} \/ t_pc' \in {"train", "test"})
          => np_random' = np_random]_vars

\* the raw value a deterministic generator gives in state st, and the state
\* that follows
OutputAt(st) == CHOOSE r \in outputs[st] : TRUE

StateAfter(st) == (st % Len(outputs)) + 1

\* the list _generate_negatives builds from generator state st on, after k
\* iterations that collected negs, for the instance's context and parameters
RECURSIVE ReplaySpatial(_, _, _)
ReplaySpatial(st, k, negs) ==
    LET n == Len(positive_coords.v) * negative_ratio
        c == Uniform(bbox.v, OutputAt(st))
        far == \A i \in 1..Len(positive_coords.v) :
                   DistSq(positive_coords.v[i], c)
                       > min_negative_distance * min_negative_distance
    IN  IF k < n * 100 /\ Len(negs) < n
        THEN ReplaySpatial(StateAfter(st), k + 1, IF far THEN Append(negs, c) ELSE negs)
        ELSE negs

\* the list sample_background_points builds from generator state st on, for
\* n points and the excluded pixels excl, after k attempts that collected
\* cs; and the state it leaves the generator in
RECURSIVE ReplayGrid(_, _, _, _, _)
ReplayGrid(st, n, excl, cs, k) ==
    LET px == IntegersOf(OutputAt(st))
        ok == px \notin excl /\ mosaic[px] # 0
    IN  IF Len(cs) < n /\ k < n * 10
        THEN ReplayGrid(StateAfter(st), n, IF ok THEN excl \cup {px} ELSE excl,
                        IF ok THEN Append(cs, pixel_to_coords(px[1], px[2])) ELSE cs, k + 1)
        ELSE [coords |-> cs, state |-> st]

\* the partition and the negatives of a trial of n training positives run
\* on a fresh generator of seed sd
ReplayTrial(sd, n) ==
    LET st == (sd % Len(outputs)) + 1
        perm == Arrangement(OutputAt(st), [i \in 1..Len(valid_coords) |-> i])
        sh == [i \in 1..Len(valid_coords) |-> valid_coords[perm[i]]]
        train == ReplayGrid(StateAfter(st), n, PixelsOf(sh), <<>>, 0)
        test == ReplayGrid(train.state, Len(sh) - n, PixelsOf(sh \o train.coords), <<>>, 0)
    IN  <<sh, train.coords, test.coords>>

\* C15: what get_negative_coords returns is fixed by the seed, the
\* positives, the bounding box and the parameters of the instance, whatever
\* was drawn from the global generator before the call; and a trial runs on
\* a generator of seed BASE_SEED + trial_index, which with the occurrences
\* and the training size fixes its partition and its negatives.
C15_SamplingDeterministic ==
    /\ (kind = "classifier" /\ last.op = "get_negative_coords" /\ last.ok)
           => last.coords = ReplaySpatial((seed % Len(outputs)) + 1, 0, <<>>)
    /\ t_pc = "done"
           => /\ \E idx \in 0..(N_TRIALS - 1) : rng.seed = BASE_SEED + idx
              /\ <<shuffled_coords, train_neg_coords, test_neg_coords>>
                     = ReplayTrial(rng.seed, n_pos)

\* a call that returned two different points, so that the place in the
\* generator's cycle the call began at shows in its result
C15_Witness ==
    /\ kind = "classifier"
    /\ last.op = "get_negative_coords"
    /\ last.ok
    /\ Len(last.coords) = 2
    /\ last.coords[1] # last.coords[2]
    /\ outputs[1] # outputs[2]

====
